---- MODULE Spec2Model ----
(***************************************************************************)
(* K-Medians clustering engine (pyclustering/cluster/kmedians.py).         *)
(*                                                                         *)
(* Lists are sequences; the element at Python position i is the element   *)
(* at position i + 1 here (operator At).  Point indexes stored in the     *)
(* clusters keep their Python values 0 .. N-1.                             *)
(*                                                                         *)
(* Points are objects: heap maps a reference to the coordinates of the     *)
(* point object, and every list of points is a list of references, so      *)
(* that the sharing created by the slice copy of the constructor and by    *)
(* the update step is visible.                                             *)
(***************************************************************************)
EXTENDS Integers, Sequences, FiniteSets

\* ---------------------------------------------------------------- bounds
MaxN == 3
MaxTol == 1
MaxCalls == 2
Scale == 100

\* the numbers of initial centers, the coordinates and the dimensions tried
Counts == 1 .. 2
Coord == 0 .. 2
Dims == {1, 2}

Far == CHOOSE x \in Coord : \A y \in Coord : y <= x

\* the points of dimension d tried: every point of the line, and two corners
\* of the square
Points(d) ==
    IF d = 1 THEN {<<x>> : x \in Coord}
    ELSE {[i \in 1 .. d |-> x] : x \in {0, Far}}

\* float('inf'), the initial value of changes
Inf == -1

VARIABLES
    heap,             \* reference -> coordinates of the point object
    pointer_data,     \* self.__pointer_data: list of references
    initial_centers,  \* the list object the caller passed to the constructor
    passed_centers,   \* the values of that list when it was passed
    medians,          \* self.__medians: list of references
    clusters,         \* self.__clusters: list of lists of point indexes
    tolerance,        \* self.__tolerance
    pc,               \* position of the caller / of process()
    changes,          \* local of process()
    stop_condition,   \* local of process()
    updated_centers,  \* local of process()
    outcome,          \* how the last call of process() ended
    calls,            \* number of calls of process() so far
    entry,            \* the results, outcome and emptied before the running call
    emptied,          \* an assignment step of the running call left a cluster empty
    gm_squared,       \* collaborator: geometric_median sums squared distances
    gm_first,         \* collaborator: geometric_median keeps the first of equal sums
    gm_empty          \* collaborator: geometric_median on an empty index list

vars == <<heap, pointer_data, initial_centers, passed_centers, medians, clusters,
          tolerance, pc, changes, stop_condition, updated_centers, outcome, calls,
          entry, emptied, gm_squared, gm_first, gm_empty>>

\* ---------------------------------------------------------------- lists
At(list, i) == list[i + 1]

\* the coordinates of the points a list of references holds
Values(h, refs) == [i \in 1 .. Len(refs) |-> h[refs[i]]]

Max2(a, b) == IF a > b THEN a ELSE b

RECURSIVE MaxOf(_)
MaxOf(s) == IF Len(s) = 1 THEN s[1] ELSE Max2(s[1], MaxOf(Tail(s)))

\* ---------------------------------------------------------------- collaborators
RECURSIVE SumSq(_, _, _)
SumSq(a, b, i) ==
    IF i > Len(a) THEN 0
    ELSE (a[i] - b[i]) * (a[i] - b[i]) + SumSq(a, b, i + 1)

\* squared Euclidean distance of two points of equal dimension
euclidean_distance_sqrt(a, b) == SumSq(a, b, 1)

MaxSq == 2 * Far * Far

\* fixed-point square root: the largest r with r * r <= Scale * Scale * n
Root == [n \in 0 .. MaxSq |->
           CHOOSE r \in 0 .. Scale * (2 * Far + 1) :
               /\ r * r <= Scale * Scale * n
               /\ (r + 1) * (r + 1) > Scale * Scale * n]

\* the distance geometric_median sums: squared or not
gm_distance(squared, a, b) ==
    IF squared THEN euclidean_distance_sqrt(a, b)
    ELSE Root[euclidean_distance_sqrt(a, b)]

RECURSIVE SumTo(_, _, _, _, _)
SumTo(squared, points, candidate, indexes, k) ==
    IF k > Len(indexes) THEN 0
    ELSE gm_distance(squared, At(points, candidate), At(points, indexes[k]))
         + SumTo(squared, points, candidate, indexes, k + 1)

\* the index of `indexes` whose point has the least sum of distances to the
\* points of `indexes`; of several, the first or the last in the list
geometric_median(squared, first, points, indexes) ==
    LET sum(k) == SumTo(squared, points, indexes[k], indexes, 1)
        best == {k \in 1 .. Len(indexes) :
                    \A j \in 1 .. Len(indexes) : sum(k) <= sum(j)}
        pick == IF first
                THEN CHOOSE k \in best : \A j \in best : k <= j
                ELSE CHOOSE k \in best : \A j \in best : k >= j
    IN indexes[pick]

\* ---------------------------------------------------------------- kmedians
\* the constructor's copy of the caller's list: a new list of the same references
CopyCenters(centers) == [i \in 1 .. Len(centers) |-> centers[i]]

\* a slip: the sizes of the two lists are compared, not the dimensions
DimensionMismatch_sizes(h, data, meds) == Len(data) # Len(meds)

\* the dimension check of process(): TRUE when it raises
DimensionMismatch(h, data, meds) == Len(h[At(data, 0)]) # Len(h[At(meds, 0)])

\* a slip: >= for >
Continue_ge(ch, stop) == ch = Inf \/ ch >= stop

\* the loop condition of process()
Continue(ch, stop) == ch = Inf \/ ch > stop

\* a slip: <= for <, the last of equally near prototypes wins
Closer_le(dist, dist_optim, index) == dist <= dist_optim \/ index = 0

\* the condition under which a prototype replaces the best one found so far
\* (index is 0: true of index 0 alone)
Closer(dist, dist_optim, index) == dist < dist_optim \/ index = 0

\* inner loop of __update_clusters, from prototype `index` on
RECURSIVE NearestFrom(_, _, _, _, _, _)
NearestFrom(h, point, meds, index, index_optim, dist_optim) ==
    IF index >= Len(meds) THEN index_optim
    ELSE LET dist == euclidean_distance_sqrt(point, h[At(meds, index)])
         IN IF Closer(dist, dist_optim, index)
            THEN NearestFrom(h, point, meds, index + 1, index, dist)
            ELSE NearestFrom(h, point, meds, index + 1, index_optim, dist_optim)

\* a slip: the last point is not visited
PointRange_short(data) == Len(data) - 1

\* the points __update_clusters visits
PointRange(data) == Len(data)

\* a slip: one cluster per point, not per prototype
EmptyClusters_perpoint(data, meds) == [i \in 1 .. Len(data) |-> << >>]

\* the empty clusters __update_clusters starts from
EmptyClusters(data, meds) == [i \in 1 .. Len(meds) |-> << >>]

\* outer loop of __update_clusters, from point `index_point` on
RECURSIVE AssignFrom(_, _, _, _, _)
AssignFrom(h, data, meds, index_point, cl) ==
    IF index_point >= PointRange(data) THEN cl
    ELSE LET index_optim == NearestFrom(h, h[At(data, index_point)], meds, 0, -1, 0)
         IN AssignFrom(h, data, meds, index_point + 1,
                       [cl EXCEPT ![index_optim + 1] = Append(@, index_point)])

update_clusters(h, data, meds) ==
    AssignFrom(h, data, meds, 0, EmptyClusters(data, meds))

\* a slip: every prototype is computed from cluster 0
MedianIndex_zero(squared, first, empty, h, data, cl, index) ==
    IF Len(At(cl, 0)) = 0 THEN empty.index
    ELSE geometric_median(squared, first, Values(h, data), At(cl, 0))

\* the index geometric_median returns for cluster `index`; gm_empty's for an
\* empty cluster
MedianIndex(squared, first, empty, h, data, cl, index) ==
    IF Len(At(cl, index)) = 0 THEN empty.index
    ELSE geometric_median(squared, first, Values(h, data), At(cl, index))

\* __update_medians: the new prototypes are the data's own point objects
update_medians(squared, first, empty, h, data, cl) ==
    [i \in 1 .. Len(cl) |->
        At(data, MedianIndex(squared, first, empty, h, data, cl, i - 1))]

\* a slip: the move is measured after the prototypes were overwritten
Changes_after(h, meds, updated) ==
    MaxOf([i \in 1 .. Len(meds) |->
              euclidean_distance_sqrt(h[updated[i]], h[updated[i]])])

\* a slip: min for max
Changes_min(h, meds, updated) ==
    LET move(i) == euclidean_distance_sqrt(h[meds[i]], h[updated[i]])
    IN move(CHOOSE i \in 1 .. Len(meds) : \A j \in 1 .. Len(meds) : move(i) <= move(j))

\* max(...) of process(): the largest squared move of a prototype
Changes(h, meds, updated) ==
    MaxOf([i \in 1 .. Len(meds) |->
              euclidean_distance_sqrt(h[meds[i]], h[updated[i]])])

\* a slip: the coordinates are written into the point objects the engine's
\* list holds, which the constructor's slice copy shares with the caller
StoreMedians_inplace(h, meds, updated) ==
    [heap |-> [r \in DOMAIN h |->
                  IF \E i \in 1 .. Len(meds) : meds[i] = r
                  THEN h[updated[CHOOSE i \in 1 .. Len(meds) : meds[i] = r]]
                  ELSE h[r]],
     medians |-> meds]

\* a slip: the new prototypes are dropped
StoreMedians_skip(h, meds, updated) == [heap |-> h, medians |-> meds]

\* self.__medians = updated_centers: the engine's list is replaced, no point
\* object is written
StoreMedians(h, meds, updated) == [heap |-> h, medians |-> updated]

get_clusters == clusters

get_centers == Values(heap, medians)

HasEmpty(cl) == \E i \in 1 .. Len(cl) : Len(cl[i]) = 0

\* ---------------------------------------------------------------- states
\* the state after kmedians(data, initial_centers, tolerance)
Init ==
    \E n \in 1 .. MaxN, k \in Counts, dd \in Dims, dc \in Dims :
      \E xs \in [1 .. n -> Points(dd)], cs \in [1 .. k -> Points(dc)] :
        /\ heap = [r \in 1 .. n + k |-> IF r <= n THEN xs[r] ELSE cs[r - n]]
        /\ pointer_data = [i \in 1 .. n |-> i]
        /\ initial_centers = [j \in 1 .. k |-> n + j]
        /\ passed_centers = cs
        /\ medians = CopyCenters([j \in 1 .. k |-> n + j])
        /\ clusters = << >>
        /\ tolerance \in 0 .. MaxTol
        /\ pc = "idle"
        /\ changes = Inf
        /\ stop_condition = 0
        /\ updated_centers = << >>
        /\ outcome = "constructed"
        /\ calls = 0
        /\ entry = [clusters |-> << >>, centers |-> << >>, outcome |-> "constructed",
                    emptied |-> FALSE]
        /\ emptied = FALSE
        /\ gm_squared \in BOOLEAN
        /\ gm_first \in BOOLEAN
        /\ gm_empty = [chosen |-> FALSE, raises |-> FALSE, index |-> 0]

\* process(), up to the loop
Process ==
    /\ pc = "idle"
    /\ calls < MaxCalls
    /\ calls' = calls + 1
    /\ entry' = [clusters |-> get_clusters, centers |-> get_centers,
                 outcome |-> outcome, emptied |-> emptied]
    /\ emptied' = FALSE
    /\ changes' = Inf
    /\ stop_condition' = tolerance * tolerance
    /\ updated_centers' = << >>
    /\ IF DimensionMismatch(heap, pointer_data, medians)
       THEN /\ pc' = "idle"
            /\ outcome' = "NameError"
       ELSE /\ pc' = "while"
            /\ outcome' = "running"
    /\ UNCHANGED <<heap, pointer_data, initial_centers, passed_centers, medians,
                   clusters, tolerance, gm_squared, gm_first, gm_empty>>

\* while (changes > stop_condition): self.__clusters = self.__update_clusters()
Assign ==
    /\ pc = "while"
    /\ Continue(changes, stop_condition)
    /\ clusters' = update_clusters(heap, pointer_data, medians)
    /\ emptied' = (emptied \/ HasEmpty(clusters'))
    /\ pc' = "update"
    /\ UNCHANGED <<heap, pointer_data, initial_centers, passed_centers, medians,
                   tolerance, changes, stop_condition, updated_centers, outcome,
                   calls, entry, gm_squared, gm_first, gm_empty>>

\* the loop condition fails: process() returns
Return ==
    /\ pc = "while"
    /\ ~Continue(changes, stop_condition)
    /\ pc' = "idle"
    /\ outcome' = "returned"
    /\ UNCHANGED <<heap, pointer_data, initial_centers, passed_centers, medians,
                   clusters, tolerance, changes, stop_condition, updated_centers,
                   calls, entry, emptied, gm_squared, gm_first, gm_empty>>

\* what geometric_median does with an empty index list is fixed by the
\* collaborator, and is found out at the first empty cluster
EmptyChoices ==
    IF gm_empty.chosen THEN {gm_empty}
    ELSE {[chosen |-> TRUE, raises |-> TRUE, index |-> 0]}
         \cup {[chosen |-> TRUE, raises |-> FALSE, index |-> i] :
                  i \in 0 .. Len(pointer_data) - 1}

\* updated_centers = self.__update_medians(); changes = max([...])
Update ==
    /\ pc = "update"
    /\ IF HasEmpty(clusters)
       THEN \E e \in EmptyChoices :
              /\ gm_empty' = e
              /\ IF e.raises
                 THEN /\ pc' = "idle"
                      /\ outcome' = "TypeError"
                      /\ UNCHANGED <<updated_centers, changes>>
                 ELSE /\ updated_centers' =
                            update_medians(gm_squared, gm_first, e, heap,
                                           pointer_data, clusters)
                      /\ changes' = Changes(heap, medians, updated_centers')
                      /\ pc' = "store"
                      /\ UNCHANGED outcome
       ELSE /\ updated_centers' =
                  update_medians(gm_squared, gm_first, gm_empty, heap,
                                 pointer_data, clusters)
            /\ changes' = Changes(heap, medians, updated_centers')
            /\ pc' = "store"
            /\ UNCHANGED <<outcome, gm_empty>>
    /\ UNCHANGED <<heap, pointer_data, initial_centers, passed_centers, medians,
                   clusters, tolerance, stop_condition, calls, entry, emptied,
                   gm_squared, gm_first>>

\* self.__medians = updated_centers
Store ==
    /\ pc = "store"
    /\ heap' = StoreMedians(heap, medians, updated_centers).heap
    /\ medians' = StoreMedians(heap, medians, updated_centers).medians
    /\ pc' = "while"
    /\ UNCHANGED <<pointer_data, initial_centers, passed_centers, clusters,
                   tolerance, changes, stop_condition, updated_centers, outcome,
                   calls, entry, emptied, gm_squared, gm_first, gm_empty>>

Next == Process \/ Assign \/ Return \/ Update \/ Store

Spec == Init /\ [][Next]_vars

\* the first call of process() of an engine
FirstProcess == calls = 0 /\ Process

FirstNext == FirstProcess \/ Assign \/ Return \/ Update \/ Store

\* one call of process(), which runs on once called: the loop is sequential
\* code
FairSpec ==
    Init /\ [][FirstNext]_vars /\ WF_vars(Assign \/ Return \/ Update \/ Store)

\* ---------------------------------------------------------------- properties
N == Len(pointer_data)

K == Len(passed_centers)

Returned == pc = "idle" /\ outcome = "returned"

\* how often point index p occurs in the clusters
Occurrences(cl, p) ==
    Cardinality({ik \in {<<i, k>> : i \in 1 .. Len(cl), k \in 1 .. N} :
                    ik[2] <= Len(cl[ik[1]]) /\ cl[ik[1]][ik[2]] = p})

\* the squared distance of point index p to prototype index i
DistTo(meds, p, i) == SumSq(heap[At(pointer_data, p)], meds[i + 1], 1)

\* the lowest prototype index among those nearest to point index p
LowestNearest(meds, p) ==
    CHOOSE i \in 0 .. Len(meds) - 1 :
        /\ \A j \in 0 .. Len(meds) - 1 : DistTo(meds, p, i) <= DistTo(meds, p, j)
        /\ \A j \in 0 .. i - 1 : DistTo(meds, p, j) > DistTo(meds, p, i)

Members(cl, i) == {cl[i + 1][k] : k \in 1 .. Len(cl[i + 1])}

\* C1: after process() returns, every point index 0 .. N-1 is in exactly one
\* of the clusters, once, and the clusters hold nothing else.
C1_Partition ==
    Returned =>
        /\ \A p \in 0 .. N - 1 : Occurrences(get_clusters, p) = 1
        /\ \A i \in 0 .. Len(get_clusters) - 1 : Members(get_clusters, i) \subseteq 0 .. N - 1

C1_Witness ==
    /\ Returned
    /\ N = MaxN
    /\ Len(get_clusters) = 2
    /\ Len(get_clusters[1]) > 0
    /\ Len(get_clusters[2]) > 0

\* C2 as stated: whenever no call is running, also right after construction,
\* there are as many clusters as prototypes, and K of them.
C2_Original ==
    pc = "idle" => Len(get_clusters) = Len(get_centers) /\ Len(get_centers) = K

\* C2: there are always K prototypes; there are K clusters from the first
\* assignment step on (so after every call that passed the dimension check),
\* and none before it (after construction, and after a call that failed the
\* dimension check).
C2_Alignment ==
    /\ Len(get_centers) = K
    /\ pc \in {"update", "store"} => Len(get_clusters) = K
    /\ outcome \in {"returned", "TypeError"} => Len(get_clusters) = K
    /\ outcome \in {"constructed", "NameError"} => Len(get_clusters) = 0

C2_Witness ==
    /\ Returned
    /\ entry.outcome = "constructed"
    /\ Len(entry.clusters) = 0
    /\ K = 2
    /\ N # K
    /\ Len(get_clusters) = 2

\* C3 as stated: a call of process() on an engine whose previous call
\* returned leaves the clusters and the prototypes as they were, for any
\* tolerance (here for the calls in which no cluster was empty, whose every
\* step the collaborators' contracts decide).
C3_Original ==
    (Returned /\ entry.outcome = "returned" /\ ~emptied /\ ~entry.emptied) =>
        get_clusters = entry.clusters /\ get_centers = entry.centers

\* C3: with tolerance 0, a call of process() on an engine whose previous call
\* returned leaves the clusters and the prototypes as they were.
C3_FixedPoint ==
    (Returned /\ entry.outcome = "returned" /\ tolerance = 0) =>
        get_clusters = entry.clusters /\ get_centers = entry.centers

C3_Witness ==
    /\ Returned
    /\ entry.outcome = "returned"
    /\ tolerance = 0
    /\ K = 2
    /\ get_centers # passed_centers
    /\ get_centers[1] # get_centers[2]

\* C4: a call of process() ends with the dimension error exactly when the
\* first data point and the first prototype differ in length, and then the
\* clusters and the prototypes are those from before the call.
C4_DimensionCheck ==
    (pc = "idle" /\ calls > 0) =>
        /\ outcome = "NameError" <=>
               Len(heap[pointer_data[1]]) # Len(entry.centers[1])
        /\ outcome = "NameError" =>
               get_clusters = entry.clusters /\ get_centers = entry.centers

C4_Witness ==
    /\ pc = "idle"
    /\ outcome = "NameError"
    /\ N = K
    /\ Len(heap[pointer_data[1]]) = 1
    /\ Len(entry.centers[1]) = 2

C6_CallerCenters == Values(heap, initial_centers) = passed_centers

C6_Witness ==
    /\ Returned
    /\ get_centers # passed_centers
    /\ Values(heap, initial_centers) = passed_centers
    /\ \A i \in 1 .. K : medians[i] # initial_centers[i]

\* C7: a call of process() in which no assignment step leaves a cluster
\* empty comes to its end.
C7_Termination == (pc # "idle") ~> (pc = "idle" \/ emptied)

C7_Witness ==
    /\ Returned
    /\ ~emptied
    /\ tolerance = 0
    /\ K = 2
    /\ changes = 0
    /\ get_centers # entry.centers

\* the sum geometric_median minimises, for the point at `value`
SumFrom(value, cl, i) ==
    LET term(k) == gm_distance(gm_squared, value, heap[At(pointer_data, cl[i + 1][k])])
        sums[k \in 0 .. Len(cl[i + 1])] == IF k = 0 THEN 0 ELSE sums[k - 1] + term(k)
    IN sums[Len(cl[i + 1])]

IsMedianOf(cl, i, center) ==
    /\ \E m \in Members(cl, i) : heap[At(pointer_data, m)] = center
    /\ \A m \in Members(cl, i) :
          SumFrom(center, cl, i) <= SumFrom(heap[At(pointer_data, m)], cl, i)
    /\ center = Values(heap, pointer_data)[
                    geometric_median(gm_squared, gm_first,
                                     Values(heap, pointer_data), cl[i + 1]) + 1]

\* C8 as stated: after process() returns every prototype is a data point, a
\* member of its cluster and that cluster's geometric median.
C8_Original ==
    Returned =>
        \A i \in 0 .. K - 1 :
            /\ \E p \in 0 .. N - 1 : get_centers[i + 1] = heap[At(pointer_data, p)]
            /\ IsMedianOf(get_clusters, i, get_centers[i + 1])

\* C8: after process() returns every prototype is a data point, and the
\* prototype of every cluster that is not empty is a member of that cluster
\* and its geometric median.
C8_Medians ==
    Returned =>
        \A i \in 0 .. K - 1 :
            /\ \E p \in 0 .. N - 1 : get_centers[i + 1] = heap[At(pointer_data, p)]
            /\ Members(get_clusters, i) # {} =>
                  IsMedianOf(get_clusters, i, get_centers[i + 1])

C8_Witness ==
    /\ Returned
    /\ K = 2
    /\ Cardinality(Members(get_clusters, 0)) >= 2
    /\ Members(get_clusters, 1) # {}
    /\ get_centers # entry.centers
    /\ stop_condition > 0
    /\ changes > 0

\* C9: when the new prototypes are about to be stored, changes is the largest
\* squared distance between a prototype the assignment step used and its
\* replacement; the loop goes on exactly when changes exceeds tolerance
\* squared; and a call that returns has run the loop body.
C9_StopRule ==
    /\ [](pc = "store" =>
            /\ \E i \in 1 .. K :
                  changes = SumSq(get_centers[i], heap[updated_centers[i]], 1)
            /\ \A i \in 1 .. K :
                  changes >= SumSq(get_centers[i], heap[updated_centers[i]], 1))
    /\ [](Returned => changes # Inf /\ changes <= tolerance * tolerance)
    /\ [][pc = "while" =>
            /\ pc' = "update" <=> (changes = Inf \/ changes > tolerance * tolerance)
            /\ pc' = "idle" <=> (changes # Inf /\ changes <= tolerance * tolerance)]_vars

C9_Witness ==
    /\ pc = "store"
    /\ tolerance > 0
    /\ changes > tolerance * tolerance
    /\ K = 2
    /\ SumSq(get_centers[1], heap[updated_centers[1]], 1)
           # SumSq(get_centers[2], heap[updated_centers[2]], 1)

\* C10: with tolerance 0, after process() returns no point is nearer to
\* another prototype than to the one of its cluster.
C10_Nearest ==
    (Returned /\ tolerance = 0) =>
        \A i \in 0 .. K - 1 : \A p \in Members(get_clusters, i) :
            \A j \in 0 .. K - 1 :
                DistTo(get_centers, p, i) <= DistTo(get_centers, p, j)

C10_Witness ==
    /\ Returned
    /\ tolerance = 0
    /\ K = 2
    /\ Members(get_clusters, 0) # {}
    /\ Members(get_clusters, 1) # {}
    /\ get_centers # passed_centers
    /\ entry.outcome = "constructed"

====
